---- MODULE Spec2Model ----
(***************************************************************************)
(* Paginated ("lazy loading") list loaders of the Lightning Web Components *)
(* of this repository, one loader instance per behaviour:                  *)
(*                                                                         *)
(*   HtmlScroll   ServerSideLazyLoadingInHtmlTableWithScrollBar            *)
(*   HtmlButton   ServerSideLazyLoadingInHtmlTableWithLoadMoreButton       *)
(*   DataButton   ServerSideLazyLoadingInDataTableWithLoadMoreButton       *)
(*                (the commented copy, load routine in try/catch/finally)  *)
(*   DataButtonShipped  the same component as shipped under force-app      *)
(*                (load routine without try/catch/finally)                 *)
(*   DataScroll   ServerSideLazyLoadingInDataTableWithScrollBar            *)
(*   AccountScroll LazyLoadingAccountServerSideWithHtmlTableWithScrollBar  *)
(*   ClientCache  ClientSideLazyLoadingWithHtmlTableWithScrollBar          *)
(*                                                                         *)
(* An asynchronous load routine is a task that moves from its simulated    *)
(* delay to the Apex call and then settles; the Apex controller is a list  *)
(* of `total` records in a stable order, paged by LIMIT/OFFSET, whose call *)
(* may fail.  The container height written by setScrollableHeight is a     *)
(* rendering hint outside the loader state and is not represented.         *)
(***************************************************************************)
EXTENDS Integers, Sequences, FiniteSets, TLC

\* ---------------------------------------------------------------- bounds
\* page sizes tried: the small one and the components' default
SmallPageSize == 2
\* the service holds 0..MaxTotal records
MaxTotal == 12
\* Apex calls issued by one loader instance
MaxRequests == 8
\* Apex calls that fail
MaxFailures == 1
\* load routines that may be suspended at once
MaxTasks == 2
\* window scroll listeners registered by one instance
MaxListeners == 2
\* largest offset a loadmore event may produce
MaxOffset == 20

\* ------------------------------------------------------ program constants
DefaultPageSize == 5
\* LIMIT of getAllContacts
AllContactsLimit == 1000
buffer == 10
BackToTopThreshold == 20
\* clientHeight of the scrollable container in the scroll events tried
ClientHeight == 100

PageSizes == {SmallPageSize, DefaultPageSize}

\* largest @api pageSize given to setScrollableHeight
MaxPageSize == 13
\* setScrollableHeight: page sizes below this use the measured row height
MeasuredRowLimit == 9
\* setScrollableHeight: page sizes below this, and not below the first
\* limit, use the taller fixed row
TallRowLimit == 12
\* heights are in tenths of a pixel: 4.8 px added to a measured row
MeasuredRowOffset == 48
\* 31 px
TallRowHeight == 310
\* 30 px
ShortRowHeight == 300
\* getBoundingClientRect().height of a rendered first row, values tried
MeasuredRowHeights == {300, 325}

HtmlVariants == {"HtmlScroll", "HtmlButton"}
DataButtonVariants == {"DataButton", "DataButtonShipped"}
ButtonVariants == {"HtmlButton"} \cup DataButtonVariants
ContainerScrollVariants == {"HtmlScroll", "AccountScroll", "ClientCache"}
\* loaders whose load routine is guarded by hasMoreRecords and isLoading
\* and advances offset when it merges a page
FlagVariants == HtmlVariants \cup DataButtonVariants
\* loaders whose load routine is wrapped in try/catch/finally
TryFinallyVariants == HtmlVariants \cup {"DataButton"}
\* loaders that page on the server, one Apex call per page
ServerVariants == FlagVariants \cup {"DataScroll", "AccountScroll"}
Variants == ServerVariants \cup {"ClientCache"}

ScrollTops == {0, BackToTopThreshold, BackToTopThreshold + 1}
\* remaining distances scrollHeight - scrollTop - clientHeight tried
Gaps == {0, buffer - 1, buffer, buffer + 1}

VARIABLES
    variant,          \* which component this instance is
    pageSize,         \* @api pageSize
    total,            \* number of records the Apex controller can return
    mounted,          \* connectedCallback has run
    records,          \* contacts / accounts: the accumulated list
    offset,
    isLoading,
    hasMoreRecords,   \* not a field of AccountScroll, where it is never used
    tasks,            \* suspended load routines
    requests,         \* every Apex call issued so far, with its outcome
    display,          \* style.display of the back-to-top button
    listeners,        \* window scroll listeners registered
    targetIsLoading,  \* isLoading of the lightning-datatable (DataScroll)
    loadMoreStatus,   \* DataScroll status message
    lastEvent,        \* the last handler that ran and what it did
    allContacts,      \* ClientCache: the full set fetched on mount
    disposed,         \* the component has been removed from the page
    forms,            \* UpdateMultipleLeads: lightning-record-edit-forms rendered
    updatePromises,   \* one array of promise states per handleUpdateAll call
    submitted,        \* per form, submissions that have not reported yet
    toasts,           \* ShowToastEvents dispatched, in order
    navigations,      \* calls of redirectToListView
    scrollableContainer,  \* the .scrollable element is in the template
    firstRow,         \* height of the first tbody tr in tenths of px, 0 if none
    styleHeight       \* scrollableContainer.style.height in tenths of px

\* the state of UpdateMultipleLeads
leadVars == <<forms, updatePromises, submitted, toasts, navigations>>

\* the elements setScrollableHeight reads and writes
domVars == <<scrollableContainer, firstRow, styleHeight>>

\* the state of a lazy loader
loaderVars == <<variant, pageSize, total, mounted, records, offset, isLoading,
                hasMoreRecords, tasks, requests, display, listeners,
                targetIsLoading, loadMoreStatus, lastEvent, allContacts,
                disposed>>

vars == <<loaderVars, leadVars, domVars>>

\* the loader state of the specification's data model
loaderState == <<records, offset, isLoading, hasMoreRecords>>

Min(a, b) == IF a < b THEN a ELSE b
Max(a, b) == IF a > b THEN a ELSE b

RemoveAt(s, i) == [k \in 1..(Len(s) - 1) |-> IF k < i THEN s[k] ELSE s[k + 1]]

\* ------------------------------------------------------------ the service
\* SELECT ... ORDER BY Name LIMIT :limitSize OFFSET :offset
getContactsData(limitSize, off) ==
    [k \in 1..Min(limitSize, Max(total - off, 0)) |-> [id |-> off + k]]

\* a list in the opposite order
Reverse(s) == [k \in 1..Len(s) |-> s[Len(s) + 1 - k]]

\* getAllContacts(): the same WHERE clause with LIMIT 1000 and no ORDER BY,
\* so the rows come in an order the database chooses; the outcomes kept
\* here are the order of getContactsData (by Name) and its reverse
getAllContacts ==
    {getContactsData(AllContactsLimit, 0),
     Reverse(getContactsData(AllContactsLimit, 0))}

\* ------------------------------------------------------------ pure helpers
\* serial numbers restarted on every page
processContactsFromOne(contacts, currentLength) ==
    [k \in 1..Len(contacts) |->
        [id |-> contacts[k].id, serialNumber |-> (k - 1) + 1]]

\* contacts.map((contact, index) => ({...contact, serialNumber: currentLength + index + 1}))
processContacts(contacts, currentLength) ==
    [k \in 1..Len(contacts) |->
        [id |-> contacts[k].id, serialNumber |-> currentLength + (k - 1) + 1]]

\* the HTML-table and account loaders add serial numbers, the data-table
\* loaders append the result as it came
Merged(result, currentLength) ==
    IF variant \in HtmlVariants \cup {"AccountScroll", "ClientCache"}
    THEN processContacts(result, currentLength)
    ELSE result

\* the guard without its hasMoreRecords test
GuardIgnoresHasMore == isLoading

\* the guard without its isLoading test
GuardIgnoresLoading == ~hasMoreRecords

\* if (!this.hasMoreRecords || this.isLoading) return;
GuardRejects == ~hasMoreRecords \/ isLoading

\* the offset assigned the page size instead of advanced by it
NextOffsetAssigned(off) == pageSize

\* the offset advanced by one record instead of one page
NextOffsetByOne(off) == off + 1

\* this.offset += this.pageSize
NextOffset(off) == off + pageSize

\* any non-empty page taken as the continuation signal
HasMoreIfAny(n) == n > 0

\* hasMoreRecords cleared by every page
HasMoreNever(n) == FALSE

\* this.hasMoreRecords = result.length === this.pageSize
HasMoreAfter(n) == n = pageSize

\* the buffer test including the buffer itself
NearBottomInclusive(scrollTop, scrollHeight, clientHeight) ==
    scrollHeight - scrollTop - clientHeight <= buffer

\* scrollHeight - scrollTop - clientHeight < buffer
NearBottom(scrollTop, scrollHeight, clientHeight) ==
    scrollHeight - scrollTop - clientHeight < buffer

\* the display that also shows the button at exactly 20 px
BackToTopDisplayInclusive(scrollTop) ==
    IF scrollTop >= BackToTopThreshold THEN "block" ELSE "none"

\* scrollTop > 20 ? "block" : "none"
BackToTopDisplay(scrollTop) ==
    IF scrollTop > BackToTopThreshold THEN "block" ELSE "none"

\* ------------------------------------------------------------ derived
InFlight == {i \in 1..Len(tasks) : tasks[i].pc = "fetch"}
Failures == Cardinality({i \in 1..Len(requests) : requests[i].status = "failed"})
Settled == {i \in 1..Len(requests) : requests[i].status # "pending"}
Room == Len(tasks) < MaxTasks /\ Len(requests) + Len(tasks) < MaxRequests

Event(h, o) == [handler |-> h, outcome |-> o]

\* getContacts({limitSize: this.pageSize, offset: this.offset}), or
\* getAllContacts() with its fixed LIMIT and no OFFSET
NewRequest ==
    IF variant = "ClientCache"
    THEN [limitSize |-> AllContactsLimit, offset |-> 0,
          status |-> "pending", count |-> 0]
    ELSE [limitSize |-> pageSize, offset |-> offset,
          status |-> "pending", count |-> 0]

\* allContacts.slice(from, to)
Slice(s, from, to) == SubSeq(s, from + 1, Min(to, Len(s)))

\* the allLoaded getter
allLoaded ==
    IF variant = "ClientCache"
    THEN Len(records) >= Len(allContacts) /\ Len(allContacts) > 0
    ELSE ~hasMoreRecords /\ Len(records) > 0

Init ==
    /\ variant \in Variants
    /\ pageSize \in PageSizes
    /\ total \in 0..MaxTotal
    /\ mounted = FALSE
    /\ records = <<>>
    /\ offset = 0
    /\ isLoading = FALSE
    /\ hasMoreRecords = TRUE
    /\ tasks = <<>>
    /\ requests = <<>>
    /\ display = "unset"
    /\ listeners = 0
    /\ targetIsLoading = FALSE
    /\ loadMoreStatus = "unset"
    /\ lastEvent = Event("init", "none")
    /\ allContacts = <<>>
    /\ disposed = FALSE
    /\ forms = 0
    /\ updatePromises = <<>>
    /\ submitted = <<>>
    /\ toasts = <<>>
    /\ navigations = 0
    /\ scrollableContainer = FALSE
    /\ firstRow = 0
    /\ styleHeight = 0

\* ------------------------------------------------- the load routines
\* loadInitialData / loadData of the HTML-table and data-table button
\* loaders, up to the first await: the guard, then isLoading = true and
\* the suspension in loadingDelay()
loadInitialData(ev) ==
    IF GuardRejects
    THEN /\ UNCHANGED <<isLoading, tasks, requests>>
         /\ lastEvent' = Event(ev, "rejected")
    ELSE /\ isLoading' = TRUE
         /\ tasks' = Append(tasks, [routine |-> "loadData", pc |-> "delay",
                                    req |-> 0, fromLoadMore |-> FALSE])
         /\ UNCHANGED requests
         /\ lastEvent' = Event(ev, "accepted")

\* loadData of DataScroll, called with the offset the caller left behind:
\* the guard, then isLoading = true and the Apex call at once (no delay)
loadDataScroll(ev, off, fromMore) ==
    IF GuardRejects
    THEN /\ UNCHANGED <<isLoading, tasks, requests>>
         \* await of the finished loadData, then target.isLoading = false
         /\ targetIsLoading' = FALSE
         /\ lastEvent' = Event(ev, "rejected")
    ELSE /\ isLoading' = TRUE
         /\ requests' = Append(requests, [limitSize |-> pageSize, offset |-> off,
                                          status |-> "pending", count |-> 0])
         /\ tasks' = Append(tasks, [routine |-> "loadData", pc |-> "fetch",
                                    req |-> Len(requests) + 1,
                                    fromLoadMore |-> fromMore])
         /\ targetIsLoading' = fromMore
         /\ lastEvent' = Event(ev, "accepted")

\* loadInitialData of AccountScroll: no guard, isLoading = true, Apex call
accountLoadInitialData(ev) ==
    /\ isLoading' = TRUE
    /\ requests' = Append(requests, NewRequest)
    /\ tasks' = Append(tasks, [routine |-> "loadInitialData", pc |-> "fetch",
                               req |-> Len(requests) + 1, fromLoadMore |-> FALSE])
    /\ lastEvent' = Event(ev, "accepted")

\* if (this.isLoading) return;
AccountGuardRejects == isLoading

\* loadMoreData of AccountScroll: guard, isLoading = true, setTimeout
accountLoadMoreData(ev) ==
    IF AccountGuardRejects
    THEN /\ UNCHANGED <<isLoading, tasks, requests>>
         /\ lastEvent' = Event(ev, "rejected")
    ELSE /\ isLoading' = TRUE
         /\ tasks' = Append(tasks, [routine |-> "loadMoreData", pc |-> "delay",
                                    req |-> 0, fromLoadMore |-> FALSE])
         /\ UNCHANGED requests
         /\ lastEvent' = Event(ev, "accepted")

\* loadAllContacts of ClientCache: no guard, isLoading = true and the
\* suspension in loadingDelay()
loadAllContacts(ev) ==
    /\ isLoading' = TRUE
    /\ tasks' = Append(tasks, [routine |-> "loadAllContacts", pc |-> "delay",
                               req |-> 0, fromLoadMore |-> FALSE])
    /\ UNCHANGED requests
    /\ lastEvent' = Event(ev, "accepted")

\* the guard that lets offset = allContacts.length through
CacheGuardRejectsPastEnd == offset > Len(allContacts)

\* if (this.offset >= this.allContacts.length) return;
CacheGuardRejects == offset >= Len(allContacts)

\* loadMoreData of ClientCache that leaves isLoading as it was
cacheLoadMoreDataWithoutFlag(ev) ==
    IF CacheGuardRejects
    THEN /\ UNCHANGED <<isLoading, tasks, requests>>
         /\ lastEvent' = Event(ev, "rejected")
    ELSE /\ UNCHANGED isLoading
         /\ tasks' = Append(tasks, [routine |-> "cacheLoadMoreData", pc |-> "delay",
                                    req |-> 0, fromLoadMore |-> FALSE])
         /\ UNCHANGED requests
         /\ lastEvent' = Event(ev, "accepted")

\* loadMoreData of ClientCache up to its await: the guard, then
\* isLoading = true and the suspension in loadingDelay()
cacheLoadMoreData(ev) ==
    IF CacheGuardRejects
    THEN /\ UNCHANGED <<isLoading, tasks, requests>>
         /\ lastEvent' = Event(ev, "rejected")
    ELSE /\ isLoading' = TRUE
         /\ tasks' = Append(tasks, [routine |-> "cacheLoadMoreData", pc |-> "delay",
                                    req |-> 0, fromLoadMore |-> FALSE])
         /\ UNCHANGED requests
         /\ lastEvent' = Event(ev, "accepted")

\* ------------------------------------------------------------ handlers
\* a mount that starts no load
connectedCallbackWithoutLoad ==
    /\ ~mounted
    /\ mounted' = TRUE
    /\ lastEvent' = Event("mount", "none")
    /\ UNCHANGED <<leadVars, domVars,
                   variant, pageSize, total, records, offset, isLoading,
                   hasMoreRecords, tasks, requests, display, listeners,
                   targetIsLoading, loadMoreStatus, allContacts, disposed>>

\* connectedCallback: the first load, with no guard in the account and
\* client-cache loaders
connectedCallback ==
    /\ ~mounted
    /\ mounted' = TRUE
    /\ CASE variant \in FlagVariants ->
                loadInitialData("mount") /\ UNCHANGED targetIsLoading
         [] variant = "DataScroll" -> loadDataScroll("mount", offset, FALSE)
         [] variant = "AccountScroll" ->
                accountLoadInitialData("mount") /\ UNCHANGED targetIsLoading
         [] variant = "ClientCache" ->
                loadAllContacts("mount") /\ UNCHANGED targetIsLoading
    /\ UNCHANGED <<leadVars, domVars,
                   variant, pageSize, total, records, offset, hasMoreRecords,
                   display, listeners, loadMoreStatus, allContacts, disposed>>

\* the platform removes the component from the page; no component defines
\* disconnectedCallback, so nothing of the loader changes and the
\* suspended routines go on
disconnectedCallback ==
    /\ mounted
    /\ ~disposed
    /\ disposed' = TRUE
    /\ lastEvent' = Event("disconnect", "none")
    /\ UNCHANGED <<leadVars, domVars,
                   variant, pageSize, total, mounted, records, offset,
                   isLoading, hasMoreRecords, tasks, requests, display,
                   listeners, targetIsLoading, loadMoreStatus, allContacts>>

\* handleLoadMore that registers a listener only when the load starts
handleLoadMoreRegisteringOnAccept ==
    /\ mounted
    /\ ~disposed
    /\ variant \in ButtonVariants
    /\ Room
    /\ listeners < MaxListeners
    /\ loadInitialData("button")
    /\ listeners' = IF GuardRejects THEN listeners ELSE listeners + 1
    /\ UNCHANGED <<leadVars, domVars,
                   variant, pageSize, total, mounted, records, offset,
                   hasMoreRecords, display, targetIsLoading, loadMoreStatus,
                   allContacts, disposed>>

\* handleLoadMore of the button loaders: the load routine, then
\* handleScrollEvent() registers one more window scroll listener
handleLoadMore ==
    /\ mounted
    /\ ~disposed
    /\ variant \in ButtonVariants
    /\ Room
    /\ listeners < MaxListeners
    /\ loadInitialData("button")
    /\ listeners' = listeners + 1
    /\ UNCHANGED <<leadVars, domVars,
                   variant, pageSize, total, mounted, records, offset,
                   hasMoreRecords, display, targetIsLoading, loadMoreStatus,
                   allContacts, disposed>>

\* a window scroll event at position scrollY: every listener
\* handleScrollEvent registered runs and sets the display; with none
\* registered nothing runs
windowScrollAt(scrollY) ==
    /\ mounted
    /\ ~disposed
    /\ variant \in ButtonVariants
    /\ display' = IF listeners > 0 THEN BackToTopDisplay(scrollY) ELSE display
    /\ lastEvent' = Event("windowScroll", "none")
    /\ UNCHANGED <<leadVars, domVars,
                   variant, pageSize, total, mounted, records, offset,
                   isLoading, hasMoreRecords, tasks, requests, listeners,
                   targetIsLoading, loadMoreStatus, allContacts, disposed>>

\* a window scroll listener that also runs the load routine
windowScrollAlsoLoads ==
    /\ mounted
    /\ ~disposed
    /\ variant \in ButtonVariants
    /\ Room
    /\ loadInitialData("windowScroll")
    /\ \E scrollY \in ScrollTops :
          display' = IF listeners > 0 THEN BackToTopDisplay(scrollY) ELSE display
    /\ UNCHANGED <<leadVars, domVars,
                   variant, pageSize, total, mounted, records, offset,
                   hasMoreRecords, listeners, targetIsLoading, loadMoreStatus,
                   allContacts, disposed>>

\* a window scroll event
windowScroll ==
    \E scrollY \in ScrollTops : windowScrollAt(scrollY)

\* handleScroll of the container-scroll loaders, for one geometry of the
\* container: gap is scrollHeight - scrollTop - clientHeight
handleScrollAt(scrollTop, gap) ==
    /\ mounted
    /\ ~disposed
    /\ variant \in ContainerScrollVariants
    /\ Room
    /\ LET scrollHeight == scrollTop + ClientHeight + gap
           near == NearBottom(scrollTop, scrollHeight, ClientHeight)
           calls == /\ near
                    /\ ~isLoading
                    /\ (variant = "ClientCache" => ~allLoaded)
       IN /\ IF calls
             THEN CASE variant = "AccountScroll" -> accountLoadMoreData("scroll")
                    [] variant = "ClientCache" -> cacheLoadMoreData("scroll")
                    [] OTHER -> loadInitialData("scroll")
             ELSE /\ UNCHANGED <<isLoading, tasks, requests>>
                  /\ lastEvent' = Event("scroll", IF near THEN "rejected" ELSE "far")
          /\ display' = BackToTopDisplay(scrollTop)
    /\ UNCHANGED <<leadVars, domVars,
                   variant, pageSize, total, mounted, records, offset,
                   hasMoreRecords, listeners, targetIsLoading, loadMoreStatus,
                   allContacts, disposed>>

handleScroll ==
    \E scrollTop \in ScrollTops, gap \in Gaps : handleScrollAt(scrollTop, gap)

\* loadMoreData(event) of DataScroll, on the datatable's loadmore event
loadMoreData ==
    /\ mounted
    /\ ~disposed
    /\ variant = "DataScroll"
    /\ Room
    /\ NextOffset(offset) <= MaxOffset
    /\ offset' = NextOffset(offset)
    /\ loadDataScroll("loadmore", NextOffset(offset), TRUE)
    /\ UNCHANGED <<leadVars, domVars,
                   variant, pageSize, total, mounted, records, hasMoreRecords,
                   display, listeners, loadMoreStatus, allContacts, disposed>>

\* ------------------------------------------- continuations of a load
\* loadingDelay() / setTimeout elapsed: the routine reads pageSize and
\* offset and calls the Apex method
delayElapses(i) ==
    /\ tasks[i].pc = "delay"
    /\ tasks[i].routine # "cacheLoadMoreData"
    /\ requests' = Append(requests, NewRequest)
    /\ tasks' = [tasks EXCEPT ![i].pc = "fetch", ![i].req = Len(requests) + 1]
    /\ lastEvent' = Event("delay", "issued")
    /\ UNCHANGED <<leadVars, domVars,
                   variant, pageSize, total, mounted, records, offset,
                   isLoading, hasMoreRecords, display, listeners,
                   targetIsLoading, loadMoreStatus, allContacts, disposed>>

\* loadMoreData of ClientCache after its loadingDelay(): the next slice of
\* the cache is appended; no Apex call
cacheSliceMerges(i) ==
    /\ tasks[i].pc = "delay"
    /\ tasks[i].routine = "cacheLoadMoreData"
    /\ records' = records \o Slice(allContacts, offset, offset + pageSize)
    /\ offset' = NextOffset(offset)
    /\ isLoading' = FALSE
    /\ tasks' = RemoveAt(tasks, i)
    /\ lastEvent' = Event("delay", "sliced")
    /\ UNCHANGED <<leadVars, domVars,
                   variant, pageSize, total, mounted, hasMoreRecords, requests,
                   display, listeners, targetIsLoading, loadMoreStatus,
                   allContacts, disposed>>

\* the merge that assigns the new page instead of appending it
mergeReplacingList(result) ==
    /\ IF Len(result) > 0
       THEN /\ records' = Merged(result, Len(records))
            /\ offset' = NextOffset(offset)
            /\ hasMoreRecords' = HasMoreAfter(Len(result))
       ELSE /\ hasMoreRecords' = FALSE
            /\ UNCHANGED <<records, offset>>
    /\ isLoading' = FALSE
    /\ UNCHANGED <<targetIsLoading, loadMoreStatus>>

\* the merge with offset advanced only by a full page
mergeAdvancingOnFullPage(result) ==
    /\ IF Len(result) > 0
       THEN /\ records' = records \o Merged(result, Len(records))
            /\ offset' = IF Len(result) = pageSize THEN NextOffset(offset) ELSE offset
            /\ hasMoreRecords' = HasMoreAfter(Len(result))
       ELSE /\ hasMoreRecords' = FALSE
            /\ UNCHANGED <<records, offset>>
    /\ isLoading' = FALSE
    /\ UNCHANGED <<targetIsLoading, loadMoreStatus>>

\* the merge without the test for an empty page
mergeWithoutEmptyTest(result) ==
    /\ records' = records \o Merged(result, Len(records))
    /\ offset' = NextOffset(offset)
    /\ hasMoreRecords' = HasMoreAfter(Len(result))
    /\ isLoading' = FALSE
    /\ UNCHANGED <<targetIsLoading, loadMoreStatus>>

\* the body after `const result = await getContacts(...)` of the
\* HTML-table and data-table button loaders, and the finally block
mergeFlagVariant(result) ==
    /\ IF Len(result) > 0
       THEN /\ records' = records \o Merged(result, Len(records))
            /\ offset' = NextOffset(offset)
            /\ hasMoreRecords' = HasMoreAfter(Len(result))
       ELSE /\ hasMoreRecords' = FALSE
            /\ UNCHANGED <<records, offset>>
    /\ isLoading' = FALSE
    /\ UNCHANGED <<targetIsLoading, loadMoreStatus>>

\* the body after the await of DataScroll.loadData (`if (result)` holds
\* for every list), its finally block, and the rest of loadMoreData
mergeDataScroll(result, fromMore) ==
    /\ records' = records \o Merged(result, Len(records))
    /\ hasMoreRecords' = HasMoreAfter(Len(result))
    /\ loadMoreStatus' = IF HasMoreAfter(Len(result))
                         THEN "Loading accounts...."
                         ELSE "No more records to load"
    /\ isLoading' = FALSE
    /\ targetIsLoading' = IF fromMore THEN FALSE ELSE targetIsLoading
    /\ UNCHANGED offset

\* the .then callbacks of AccountScroll
mergeAccountScroll(result, routine) ==
    /\ IF routine = "loadInitialData"
       THEN /\ records' = Merged(result, 0)
            /\ offset' = NextOffset(offset)
       ELSE IF Len(result) > 0
            THEN /\ records' = records \o Merged(result, Len(records))
                 /\ offset' = NextOffset(offset)
            ELSE UNCHANGED <<records, offset>>
    /\ isLoading' = FALSE
    /\ UNCHANGED <<hasMoreRecords, targetIsLoading, loadMoreStatus>>

\* the first merge showing the whole cache at once
mergeAllContactsShowingAll(result) ==
    /\ IF Len(result) > 0
       THEN /\ allContacts' = Merged(result, 0)
            /\ records' = Merged(result, 0)
            /\ offset' = pageSize
       ELSE UNCHANGED <<allContacts, records, offset>>
    /\ isLoading' = FALSE
    /\ UNCHANGED <<hasMoreRecords, targetIsLoading, loadMoreStatus>>

\* the body after `const result = await getAllContacts()` of ClientCache
\* and its finally block
mergeAllContacts(result) ==
    /\ IF Len(result) > 0
       THEN /\ allContacts' = Merged(result, 0)
            /\ records' = Slice(Merged(result, 0), 0, pageSize)
            /\ offset' = pageSize
       ELSE UNCHANGED <<allContacts, records, offset>>
    /\ isLoading' = FALSE
    /\ UNCHANGED <<hasMoreRecords, targetIsLoading, loadMoreStatus>>

\* the Apex call of task i returns its page
fetchResolves(i) ==
    /\ tasks[i].pc = "fetch"
    /\ LET r == requests[tasks[i].req]
           results == IF variant = "ClientCache"
                      THEN getAllContacts
                      ELSE {getContactsData(r.limitSize, r.offset)}
       IN \E result \in results :
          /\ requests' = [requests EXCEPT ![tasks[i].req].status = "ok",
                                          ![tasks[i].req].count = Len(result)]
          /\ CASE variant \in FlagVariants ->
                      mergeFlagVariant(result) /\ UNCHANGED allContacts
               [] variant = "DataScroll" ->
                      /\ mergeDataScroll(result, tasks[i].fromLoadMore)
                      /\ UNCHANGED allContacts
               [] variant = "AccountScroll" ->
                      /\ mergeAccountScroll(result, tasks[i].routine)
                      /\ UNCHANGED allContacts
               [] variant = "ClientCache" -> mergeAllContacts(result)
    /\ tasks' = RemoveAt(tasks, i)
    /\ lastEvent' = Event("fetch", "resolved")
    /\ UNCHANGED <<leadVars, domVars,
                   variant, pageSize, total, mounted, display, listeners,
                   disposed>>

\* a rejected call handled without the finally block
settleFailureWithoutFinally(fromMore) ==
    /\ loadMoreStatus' = IF variant = "DataScroll" THEN "Error loading data"
                         ELSE loadMoreStatus
    /\ targetIsLoading' = IF fromMore THEN FALSE ELSE targetIsLoading
    /\ UNCHANGED <<records, offset, hasMoreRecords, isLoading>>

\* what the loader does with a rejected Apex call: the catch and finally
\* blocks where the routine has them; the shipped data-table button loader
\* has neither, so the rejection leaves loadData with nothing reset
settleFailure(fromMore) ==
    /\ isLoading' = IF variant = "DataButtonShipped" THEN isLoading ELSE FALSE
    /\ loadMoreStatus' = IF variant = "DataScroll" THEN "Error loading data"
                         ELSE loadMoreStatus
    /\ targetIsLoading' = IF fromMore THEN FALSE ELSE targetIsLoading
    /\ UNCHANGED <<records, offset, hasMoreRecords>>

\* the Apex call of task i is rejected
fetchFails(i) ==
    /\ tasks[i].pc = "fetch"
    /\ Failures < MaxFailures
    /\ requests' = [requests EXCEPT ![tasks[i].req].status = "failed"]
    /\ settleFailure(tasks[i].fromLoadMore)
    /\ tasks' = RemoveAt(tasks, i)
    /\ lastEvent' = Event("fetch", "failed")
    /\ UNCHANGED <<leadVars, domVars,
                   variant, pageSize, total, mounted, display, listeners,
                   allContacts, disposed>>

Next ==
    \/ connectedCallback
    \/ disconnectedCallback
    \/ handleLoadMore
    \/ windowScroll
    \/ handleScroll
    \/ loadMoreData
    \/ \E i \in 1..Len(tasks) : delayElapses(i)
    \/ \E i \in 1..Len(tasks) : cacheSliceMerges(i)
    \/ \E i \in 1..Len(tasks) : fetchResolves(i)
    \/ \E i \in 1..Len(tasks) : fetchFails(i)

Spec == Init /\ [][Next]_vars

TypeOK ==
    /\ variant \in Variants
    /\ pageSize \in PageSizes
    /\ total \in 0..MaxTotal
    /\ mounted \in BOOLEAN
    /\ isLoading \in BOOLEAN
    /\ hasMoreRecords \in BOOLEAN
    /\ offset \in Nat
    /\ Len(tasks) <= MaxTasks
    /\ Len(requests) <= MaxRequests
    /\ display \in {"unset", "block", "none"}
    /\ listeners \in 0..MaxListeners
    /\ disposed \in BOOLEAN
    /\ Len(allContacts) <= total

\* ------------------------------------------------- UpdateMultipleLeads
\* lead ids passed in c__recordIds (the form is rendered for at least one)
MaxForms == 2
\* clicks on Update All
MaxInvocations == 2

\* every result counted as a success
successCountOfAll(results) == Len(results)

\* results.filter((result) => result.status === "fulfilled").length
successCount(results) ==
    Cardinality({f \in 1..Len(results) : results[f] = "fulfilled"})

\* results.filter((result) => result.status === "rejected"): the forms whose
\* messages make up the errors array
errors(results) == {f \in 1..Len(results) : results[f] = "rejected"}

\* a combinator that is satisfied by the first settled promise
anySettled(results) ==
    Len(results) = 0 \/ \E f \in 1..Len(results) : results[f] # "pending"

\* Promise.allSettled(updatePromises) resolves
allSettled(results) == \A f \in 1..Len(results) : results[f] # "pending"

LeadsInit ==
    /\ variant = "UpdateMultipleLeads"
    /\ pageSize = DefaultPageSize
    /\ total = 0
    /\ mounted = TRUE
    /\ records = <<>>
    /\ offset = 0
    /\ isLoading = FALSE
    /\ hasMoreRecords = TRUE
    /\ tasks = <<>>
    /\ requests = <<>>
    /\ display = "unset"
    /\ listeners = 0
    /\ targetIsLoading = FALSE
    /\ loadMoreStatus = "unset"
    /\ lastEvent = Event("init", "none")
    /\ allContacts = <<>>
    /\ disposed = FALSE
    /\ forms \in 1..MaxForms
    /\ updatePromises = <<>>
    /\ submitted = [f \in 1..forms |-> 0]
    /\ toasts = <<>>
    /\ navigations = 0
    /\ scrollableContainer = FALSE
    /\ firstRow = 0
    /\ styleHeight = 0

\* handleUpdateAll up to Promise.allSettled: one promise per form, with its
\* success and error listeners, and form.submit()
handleUpdateAll ==
    /\ Len(updatePromises) < MaxInvocations
    /\ updatePromises' = Append(updatePromises,
                                [results |-> [f \in 1..forms |-> "pending"],
                                 reported |-> FALSE])
    /\ submitted' = [f \in 1..forms |-> submitted[f] + 1]
    /\ UNCHANGED <<forms, toasts, navigations, loaderVars, domVars>>

\* the listeners of every handleUpdateAll call run on an event of form f;
\* a promise that is already settled stays as it is
Settle(f, status) ==
    [k \in 1..Len(updatePromises) |->
        IF updatePromises[k].results[f] = "pending"
        THEN [updatePromises[k] EXCEPT !.results[f] = status]
        ELSE updatePromises[k]]

\* form f fires "success": resolve()
formSuccess(f) ==
    /\ submitted[f] > 0
    /\ submitted' = [submitted EXCEPT ![f] = @ - 1]
    /\ updatePromises' = Settle(f, "fulfilled")
    /\ UNCHANGED <<forms, toasts, navigations, loaderVars, domVars>>

\* form f fires "error": reject(event.detail.message)
formError(f) ==
    /\ submitted[f] > 0
    /\ submitted' = [submitted EXCEPT ![f] = @ - 1]
    /\ updatePromises' = Settle(f, "rejected")
    /\ UNCHANGED <<forms, toasts, navigations, loaderVars, domVars>>

\* a submission of form f ends without a success or error event
formStaysSilent(f) ==
    /\ submitted[f] > 0
    /\ submitted' = [submitted EXCEPT ![f] = @ - 1]
    /\ UNCHANGED <<forms, updatePromises, toasts, navigations, loaderVars,
                   domVars>>

\* the .then callback of call k: the toast and, without errors, the
\* redirect to the list view
thenCallback(k) ==
    /\ ~updatePromises[k].reported
    /\ allSettled(updatePromises[k].results)
    /\ LET results == updatePromises[k].results
       IN IF Cardinality(errors(results)) > 0
          THEN /\ toasts' = Append(toasts,
                                   [invocation |-> k,
                                    title |-> "Partial Success",
                                    variant |-> "warning",
                                    updated |-> successCount(results),
                                    errors |-> errors(results)])
               /\ UNCHANGED navigations
          ELSE /\ toasts' = Append(toasts,
                                   [invocation |-> k,
                                    title |-> "Success",
                                    variant |-> "success",
                                    updated |-> successCount(results),
                                    errors |-> {}])
               /\ navigations' = navigations + 1
    /\ updatePromises' = [updatePromises EXCEPT ![k].reported = TRUE]
    /\ UNCHANGED <<forms, submitted, loaderVars, domVars>>

LeadsNext ==
    \/ handleUpdateAll
    \/ \E f \in 1..forms : formSuccess(f)
    \/ \E f \in 1..forms : formError(f)
    \/ \E f \in 1..forms : formStaysSilent(f)
    \/ \E k \in 1..Len(updatePromises) : thenCallback(k)

LeadsSpec == LeadsInit /\ [][LeadsNext]_vars

\* ------------------------------------------------- the container height
\* the row height with the taller fixed row kept up to and including the
\* second limit
rowHeightTallThroughLimit(size, measured) ==
    IF size < MeasuredRowLimit THEN measured + MeasuredRowOffset
    ELSE IF size <= TallRowLimit THEN TallRowHeight
    ELSE ShortRowHeight

\* let rowHeight = 36; if (pageSize < 9) ... else if (pageSize < 12) ... else ...
\* (the initial 36 is overwritten on every branch)
rowHeight(size, measured) ==
    IF size < MeasuredRowLimit THEN measured + MeasuredRowOffset
    ELSE IF size < TallRowLimit THEN TallRowHeight
    ELSE ShortRowHeight

\* const calculatedHeight = this.pageSize * rowHeight
calculatedHeight(size, measured) == size * rowHeight(size, measured)

\* the loader as renderedCallback first finds it (mounted, the first load
\* suspended) or as the first merge leaves it (one page of a one-record
\* service), for the two loaders that share this setScrollableHeight
HeightInit ==
    /\ variant \in {"HtmlScroll", "ClientCache"}
    /\ pageSize \in 1..MaxPageSize
    /\ total = 1
    /\ mounted = TRUE
    /\ \E loaded \in BOOLEAN :
         IF loaded
         THEN /\ records = processContacts(getContactsData(pageSize, 0), 0)
              /\ offset = pageSize
              /\ isLoading = FALSE
              /\ hasMoreRecords = IF variant = "ClientCache" THEN TRUE
                                  ELSE HasMoreAfter(1)
              /\ tasks = <<>>
              /\ requests = <<[NewRequest EXCEPT !.offset = 0,
                                                 !.status = "ok",
                                                 !.count = 1]>>
              /\ allContacts = IF variant = "ClientCache" THEN records
                               ELSE <<>>
              /\ lastEvent = Event("fetch", "resolved")
         ELSE /\ records = <<>>
              /\ offset = 0
              /\ isLoading = TRUE
              /\ hasMoreRecords = TRUE
              /\ tasks = <<[routine |-> IF variant = "ClientCache"
                                        THEN "loadAllContacts" ELSE "loadData",
                            pc |-> "delay", req |-> 0,
                            fromLoadMore |-> FALSE]>>
              /\ requests = <<>>
              /\ allContacts = <<>>
              /\ lastEvent = Event("mount", "accepted")
    /\ display = "unset"
    /\ listeners = 0
    /\ targetIsLoading = FALSE
    /\ loadMoreStatus = "unset"
    /\ disposed = FALSE
    /\ forms = 0
    /\ updatePromises = <<>>
    /\ submitted = <<>>
    /\ toasts = <<>>
    /\ navigations = 0
    /\ scrollableContainer = FALSE
    /\ firstRow = 0
    /\ styleHeight = 0

\* the framework renders the template: what the two querySelector calls
\* of setScrollableHeight will find. The row is looked up inside the
\* container, so there is none without it.
render(container, row) ==
    /\ container \/ row = 0
    /\ scrollableContainer' = container
    /\ firstRow' = row
    /\ UNCHANGED <<styleHeight, loaderVars, leadVars>>

\* setScrollableHeight(), called by renderedCallback and after the first
\* merge
setScrollableHeight ==
    /\ IF scrollableContainer
       THEN IF firstRow > 0
            THEN styleHeight' = calculatedHeight(pageSize, firstRow)
            ELSE UNCHANGED styleHeight
       ELSE UNCHANGED styleHeight
    /\ UNCHANGED <<scrollableContainer, firstRow, loaderVars, leadVars>>

HeightNext ==
    \/ \E container \in BOOLEAN, row \in {0} \cup MeasuredRowHeights :
         render(container, row)
    \/ setScrollableHeight

HeightSpec == HeightInit /\ [][HeightNext]_vars

\* ------------------------------------------------- vocabulary of the claims
\* a step in which a mount, button or container-scroll handler ran
TriggerStep == connectedCallback \/ handleLoadMore \/ handleScroll

\* a step in which the pending Apex call k returned n records
Resolved(k, n) ==
    /\ k \in 1..Len(requests)
    /\ requests[k].status = "pending"
    /\ Len(requests') = Len(requests)
    /\ requests'[k].status = "ok"
    /\ requests'[k].count = n

\* a step in which the pending Apex call k was rejected
Rejected(k) ==
    /\ k \in 1..Len(requests)
    /\ requests[k].status = "pending"
    /\ Len(requests') = Len(requests)
    /\ requests'[k].status = "failed"

\* some Apex call has returned fewer records than it asked for
ShortPageSeen ==
    \E k \in 1..Len(requests) :
        requests[k].status = "ok" /\ requests[k].count < requests[k].limitSize

\* the service's records with the serial numbers of their positions
AllNumbered == [k \in 1..total |-> [id |-> k, serialNumber |-> k]]

\* ---------------------------------------------------------------- claims

\* C1: in every server-paging loader, under any interleaving of mount,
\* button, scroll and loadmore triggers with fetch completions, at most one
\* call to the paged-fetch service is outstanding at any time.
C1_AtMostOneFetchInFlight == Cardinality(InFlight) <= 1

\* C1 witness: a call is outstanding and a trigger that arrived meanwhile
\* was turned away.
C1_Witness ==
    /\ Cardinality(InFlight) = 1
    /\ lastEvent.outcome = "rejected"
    /\ Len(requests) >= 2

\* C2: in the HTML-table loaders, with a service that never fails, once
\* hasMoreRecords is false the accumulated list is exactly the service's
\* records in service order, each once, with serialNumber 1..total.
C2_CompleteListInOrder ==
    (variant \in HtmlVariants /\ Failures = 0 /\ ~hasMoreRecords)
        => records = AllNumbered

\* C2 witness: pageSize 5 and 12 records, loaded in three pages of 5, 5, 2.
C2_Witness ==
    /\ variant \in HtmlVariants
    /\ pageSize = DefaultPageSize
    /\ total = 12
    /\ Failures = 0
    /\ ~hasMoreRecords
    /\ Len(requests) = 3
    /\ requests[3].count = 2
    /\ Len(records) = 12

\* C3: in the HTML-table loaders and the data-table button loader, a load
\* trigger that arrives while isLoading is true issues no fetch and changes
\* none of offset, the accumulated list, hasMoreRecords and isLoading.
C3_TriggerWhileLoadingIsNoOp ==
    [][(variant \in FlagVariants /\ isLoading /\ TriggerStep)
          => UNCHANGED <<records, offset, hasMoreRecords, isLoading,
                         tasks, requests>>]_vars

\* C3 witness: a button press arrived while the loader was loading.
C3_Witness ==
    /\ variant \in FlagVariants
    /\ isLoading
    /\ Len(tasks) = 1
    /\ lastEvent = Event("button", "rejected")

\* C4: in the loaders that keep hasMoreRecords and advance offset on merge,
\* once a fetch has returned fewer than pageSize records hasMoreRecords is
\* false in every later state and every later trigger issues no fetch and
\* changes no loader state.
C4_TerminalAfterShortPage ==
    [][/\ (variant \in FlagVariants /\ ShortPageSeen') => ~hasMoreRecords'
       /\ (variant \in FlagVariants /\ ShortPageSeen /\ TriggerStep)
             => UNCHANGED <<records, offset, hasMoreRecords, isLoading,
                            tasks, requests>>]_vars

\* C4 witness: a trigger arrived after the short last page and was turned
\* away.
C4_Witness ==
    /\ variant \in FlagVariants
    /\ ShortPageSeen
    /\ ~hasMoreRecords
    /\ ~isLoading
    /\ lastEvent.outcome = "rejected"

\* the page the Apex call k returns
PageOf(k) == getContactsData(requests[k].limitSize, requests[k].offset)

\* C5 (as claimed): in the HTML-table and data-table button/scroll loaders
\* with a hasMoreRecords flag, when a fetch resolves with exactly pageSize
\* records the loader is idle again with hasMoreRecords true, offset is
\* larger by exactly pageSize and the page is appended in order.
C5_FullPageAdvancesOffset ==
    [][\A k \in 1..Len(requests) :
          (variant \in FlagVariants \cup {"DataScroll"} /\ Resolved(k, pageSize))
             => /\ ~isLoading'
                /\ hasMoreRecords'
                /\ offset' = offset + pageSize
                /\ records' = records \o Merged(PageOf(k), Len(records))]_vars

C7_EmptyPageIsTerminal ==
    /\ [][\A k \in 1..Len(requests) :
             (variant \in FlagVariants \cup {"DataScroll"} /\ Resolved(k, 0))
                => /\ ~hasMoreRecords'
                   /\ records' = records
                   /\ offset' = offset]_vars
    /\ []((/\ variant \in FlagVariants \cup {"DataScroll"}
           /\ total = 0
           /\ Len(requests) >= 1
           /\ requests[1].status = "ok")
              => (~hasMoreRecords /\ records = <<>>))

\* C7 witness: the service has no records and the first fetch has returned.
C7_Witness ==
    /\ variant \in FlagVariants \cup {"DataScroll"}
    /\ total = 0
    /\ Len(requests) = 1
    /\ requests[1].status = "ok"
    /\ requests[1].count = 0
    /\ lastEvent = Event("fetch", "resolved")
    /\ ~hasMoreRecords
    /\ offset = 0

\* C8: in the loaders whose load routine uses try/catch/finally, a failed
\* fetch leaves the accumulated list, offset and hasMoreRecords as they were
\* and sets isLoading to false, so the guard accepts the next trigger, and
\* the fetch issued after a failed one carries the same offset.
C8_FailureLeavesStateAndRetries ==
    /\ [][\A k \in 1..Len(requests) :
             (variant \in TryFinallyVariants /\ Rejected(k))
                => /\ UNCHANGED <<records, offset, hasMoreRecords>>
                   /\ isLoading' = FALSE
                   /\ hasMoreRecords']_vars
    /\ [](variant \in TryFinallyVariants
            => \A k \in 1..(Len(requests) - 1) :
                  requests[k].status = "failed"
                     => /\ requests[k + 1].offset = requests[k].offset
                        /\ requests[k + 1].limitSize = requests[k].limitSize)

\* C8 witness: pageSize 5; the second fetch, at offset 5, failed with 5
\* records accumulated, and the retry asked for offset 5 again.
C8_Witness ==
    /\ variant \in TryFinallyVariants
    /\ pageSize = DefaultPageSize
    /\ Len(requests) = 3
    /\ requests[1].status = "ok"
    /\ requests[2].status = "failed"
    /\ requests[2].offset = 5
    /\ requests[3].status = "pending"
    /\ requests[3].offset = 5
    /\ Len(records) = 5
    /\ isLoading

\* C9 (as claimed): in the data-table button loader shipped under force-app
\* isLoading is false again whenever its fetch has settled, by success or by
\* failure.
C9_ShippedLoaderResetsIsLoading ==
    (variant = "DataButtonShipped" /\ Len(tasks) = 0) => ~isLoading

\* C10: in the HTML-table loaders, while every fetch succeeds, the k-th
\* request carries offset (k-1) * pageSize and limit pageSize, and after k
\* fetches that each returned a full page offset is k * pageSize.
C10_OffsetIsMultipleOfPages ==
    (variant \in HtmlVariants /\ Failures = 0)
       => /\ \A k \in 1..Len(requests) :
                /\ requests[k].offset = (k - 1) * pageSize
                /\ requests[k].limitSize = pageSize
          /\ (\A k \in Settled : requests[k].count = pageSize)
                => offset = Cardinality(Settled) * pageSize

\* C10 witness: three full pages merged and the fourth request issued.
C10_Witness ==
    /\ variant \in HtmlVariants
    /\ Failures = 0
    /\ Len(requests) = 4
    /\ Cardinality(Settled) = 3
    /\ \A k \in Settled : requests[k].count = pageSize
    /\ offset = 3 * pageSize
    /\ requests[4].offset = 3 * pageSize

\* loaders that give every record a serialNumber
SerialVariants == HtmlVariants \cup {"AccountScroll"}

\* the number of records the first k Apex calls have returned
RECURSIVE ReturnedBy(_)
ReturnedBy(k) ==
    IF k = 0 THEN 0
    ELSE ReturnedBy(k - 1)
           + (IF requests[k].status = "ok" THEN requests[k].count ELSE 0)

\* C11: in the loaders that assign serial numbers (HTML-table scroll,
\* HTML-table button, account scroll), in every reachable state the length
\* of the accumulated list is the sum of the sizes of the pages merged so
\* far and the record at position i has serialNumber i.
C11_SerialsContiguous ==
    variant \in SerialVariants
       => /\ Len(records) = ReturnedBy(Len(requests))
          /\ \A i \in 1..Len(records) : records[i].serialNumber = i

\* C11 witness: two pages merged, one call failed in between, and a
\* trigger turned away since.
C11_Witness ==
    /\ variant \in SerialVariants
    /\ Failures = 1
    /\ Len(records) = 2 * pageSize
    /\ records[Len(records)].serialNumber = 2 * pageSize
    /\ lastEvent.outcome = "rejected"

IsPrefix(a, b) ==
    /\ Len(a) <= Len(b)
    /\ \A i \in 1..Len(a) : a[i] = b[i]

\* C12: the accumulated list is append-only: after any step of any loader
\* the list as it was before the step is a prefix of the list after it,
\* serial numbers included.
C12_AppendOnly == [][IsPrefix(records, records')]_vars

\* C12 witness: a later page has just been appended behind an earlier one.
C12_Witness ==
    /\ lastEvent \in {Event("fetch", "resolved"), Event("delay", "sliced")}
    /\ Len(records) > pageSize
    /\ Len(requests) >= 1
    /\ requests[Len(requests)].status = "ok"

\* C13 (as claimed): a new request is never issued before the previous one
\* has settled, the offsets sent to the service are strictly increasing and
\* pages are merged in the order they were requested.
C13_OffsetsStrictlyIncreasing ==
    variant \in ServerVariants
       => \A k \in 1..(Len(requests) - 1) :
             /\ requests[k].status # "pending"
             /\ requests[k].offset < requests[k + 1].offset

\* C13 (amended): a new request is never issued before the previous one has
\* settled, so pages are merged in the order they were requested; the
\* offsets sent to the service never decrease, and a request repeats the
\* offset of the one before it only when that one failed or returned no
\* record.
C13_OffsetsNeverDecrease ==
    variant \in ServerVariants
       => \A k \in 1..(Len(requests) - 1) :
             /\ requests[k].status # "pending"
             /\ requests[k].offset <= requests[k + 1].offset
             /\ requests[k].offset = requests[k + 1].offset
                   => \/ requests[k].status = "failed"
                      \/ requests[k].count = 0

\* C13 witness: a page merged, the next call failed, its retry at the same
\* offset succeeded and a further page was requested behind it.
C13_Witness ==
    /\ variant \in ServerVariants
    /\ Len(requests) = 4
    /\ requests[1].status = "ok"
    /\ requests[2].status = "failed"
    /\ requests[3].status = "ok"
    /\ requests[3].offset = requests[2].offset
    /\ requests[4].offset > requests[3].offset

\* C14: in the container-scroll loaders a scroll event whose remaining
\* distance scrollHeight - scrollTop - clientHeight is at least the 10 px
\* buffer issues no fetch and changes no loader state, whatever
\* hasMoreRecords and isLoading are.
C14_FarScrollIsNoOp ==
    [][\A scrollTop \in ScrollTops, gap \in Gaps :
          (gap >= buffer /\ handleScrollAt(scrollTop, gap))
             => UNCHANGED <<records, offset, isLoading, hasMoreRecords,
                            allContacts, tasks, requests>>]_vars

\* C14 witness: an idle loader with more to load has handled a scroll event
\* that was not near the bottom.
C14_Witness ==
    /\ variant \in ContainerScrollVariants
    /\ lastEvent = Event("scroll", "far")
    /\ ~isLoading
    /\ hasMoreRecords
    /\ Len(tasks) = 0
    /\ Len(records) = pageSize
    /\ total > pageSize

\* C15: in the HTML-table scroll loader a scroll event with remaining
\* distance below 10 px starts a load exactly when the loader is idle with
\* hasMoreRecords true; the load it starts issues one fetch, with limit
\* pageSize and the current offset, which no step changes between the
\* event and the fetch.
C15_NearScrollLoadsIffIdle ==
    [][variant = "HtmlScroll"
          => /\ \A scrollTop \in ScrollTops, gap \in Gaps :
                   (gap < buffer /\ handleScrollAt(scrollTop, gap))
                      => /\ (Len(tasks') = Len(tasks) + 1)
                               <=> (~isLoading /\ hasMoreRecords)
                         /\ Len(tasks') \in {Len(tasks), Len(tasks) + 1}
                         /\ requests' = requests
             /\ Len(requests') # Len(requests)
                   => /\ Len(requests') = Len(requests) + 1
                      /\ requests'[Len(requests')].limitSize = pageSize
                      /\ requests'[Len(requests')].offset = offset
                      /\ Cardinality(InFlight') = 1
                      /\ Cardinality(InFlight) = 0
             /\ (Len(tasks) > 0 /\ Len(tasks') >= Len(tasks))
                   => offset' = offset]_vars

\* C15 witness: after the mount page, a near-bottom scroll started the load
\* whose fetch is now pending with offset pageSize.
C15_Witness ==
    /\ variant = "HtmlScroll"
    /\ Len(requests) = 2
    /\ requests[1].status = "ok"
    /\ requests[2] = [limitSize |-> pageSize, offset |-> pageSize,
                      status |-> "pending", count |-> 0]
    /\ offset = pageSize
    /\ isLoading

\* C16: once the component has been destroyed, a response that arrives late
\* is dropped: no step changes the accumulated list, offset or
\* hasMoreRecords after disposal (HTML-table and data-table button loaders).
C16_LateResponseDropped ==
    [][(variant \in FlagVariants /\ disposed)
          => UNCHANGED <<records, offset, hasMoreRecords>>]_vars

\* a step in which a pending Apex call settles, resolved or rejected
FetchSettles ==
    \E k \in 1..Len(requests) :
        Rejected(k) \/ \E n \in 0..MaxTotal : Resolved(k, n)

\* C17: in the data-table scroll loader offset, accounts and hasMoreRecords
\* change only in the step in which a fetch settles; the handling of a
\* loadmore event leaves them as they were.
C17_StateChangesOnlyOnSettle ==
    [][(variant = "DataScroll" /\ ~FetchSettles)
          => UNCHANGED <<offset, records, hasMoreRecords>>]_vars

\* a step in which the suspended load routine i calls the Apex method
IssuesFetch(i) == tasks[i].pc = "delay" /\ tasks'[i].pc = "fetch"

\* what a step of a button loader may do: a window scroll event changes
\* nothing of the loader, a load starts only in an accepted mount or
\* button press, and a fetch is issued only by a suspended load
ButtonLoaderStep ==
    /\ windowScroll
          => UNCHANGED <<offset, records, isLoading, hasMoreRecords,
                         tasks, requests>>
    /\ Len(tasks) < Len(tasks')
          => /\ lastEvent'.handler \in {"mount", "button"}
             /\ lastEvent'.outcome = "accepted"
    /\ Len(requests) < Len(requests')
          => /\ Len(tasks') = Len(tasks)
             /\ \E i \in 1..Len(tasks) : IssuesFetch(i)

\* C18: in the button loaders a load starts only in the mount or in an
\* accepted button press, a fetch is issued only by a load so started, and
\* a window scroll event changes none of offset, the accumulated list,
\* isLoading and hasMoreRecords and issues no fetch.
C18_WindowScrollNeverLoads ==
    [][(variant \in ButtonVariants) => ButtonLoaderStep]_vars

\* C18 witness: a button loader with a registered listener, idle with more
\* records to load, has just handled a window scroll event.
C18_Witness ==
    /\ variant \in ButtonVariants
    /\ lastEvent = Event("windowScroll", "none")
    /\ listeners > 0
    /\ ~isLoading /\ hasMoreRecords /\ Len(tasks) = 0
    /\ Len(records) = pageSize /\ total > pageSize

\* the load that calls getAllContacts has not reached its Apex call yet
AllContactsNotYetCalled ==
    \E i \in 1..Len(tasks) :
        tasks[i].routine = "loadAllContacts" /\ tasks[i].pc = "delay"

C20_NearScrollRetriesFailedLoad ==
    [][\A scrollTop \in ScrollTops, gap \in Gaps :
          (/\ variant = "ClientCache"
           /\ Len(requests) = 1
           /\ requests[1].status = "failed"
           /\ ~isLoading
           /\ gap < buffer
           /\ handleScrollAt(scrollTop, gap))
              => Len(tasks') > Len(tasks)]_vars

\* C21: in the container-scroll loaders, after every handled scroll event
\* the back-to-top button is displayed exactly when scrollTop > 20 (hidden
\* at exactly 20), whether or not the event started a load.
C21_BackToTopFollowsScrollTop ==
    [][\A scrollTop \in ScrollTops, gap \in Gaps :
          handleScrollAt(scrollTop, gap)
             => /\ display' \in {"block", "none"}
                /\ display' = "block" <=> scrollTop > 20]_vars

\* C21 witness: a scroll event that started a load left the button hidden.
C21_Witness ==
    /\ variant \in ContainerScrollVariants
    /\ lastEvent = Event("scroll", "accepted")
    /\ display = "none"
    /\ Len(records) > 0

\* C22 as stated: every loader starts with an empty list, offset 0,
\* isLoading false and hasMore true, and the mount issues, with no user
\* action, a first request with limit pageSize and offset 0.
C22_FirstRequestIsFirstPage ==
    /\ ~mounted => /\ records = <<>> /\ offset = 0
                   /\ ~isLoading /\ hasMoreRecords
                   /\ tasks = <<>> /\ requests = <<>>
    /\ (mounted /\ requests = <<>>)
          => Len(tasks) = 1 /\ tasks[1].pc = "delay" /\ isLoading
    /\ requests # <<>>
          => requests[1].limitSize = pageSize /\ requests[1].offset = 0

\* C22 amended: every loader starts with an empty list, offset 0, isLoading
\* false and hasMore true, and the mount starts, with no user action, the
\* load that issues the first request: limit pageSize and offset 0 in the
\* server-paging loaders, the unparametrised getAllContacts in the
\* client-cache loader.
C22_MountIssuesFirstRequest ==
    /\ ~mounted => /\ records = <<>> /\ offset = 0
                   /\ ~isLoading /\ hasMoreRecords
                   /\ tasks = <<>> /\ requests = <<>>
    /\ (mounted /\ requests = <<>>)
          => Len(tasks) = 1 /\ tasks[1].pc = "delay" /\ isLoading
    /\ requests # <<>>
          => /\ requests[1].offset = 0
             /\ variant \in ServerVariants => requests[1].limitSize = pageSize
             /\ variant = "ClientCache" => requests[1].limitSize = AllContactsLimit

\* C22 witness: the load started by the mount has just issued the first
\* request, for the first page, nothing else having happened.
C22_Witness ==
    /\ variant \in ServerVariants
    /\ mounted
    /\ records = <<>>
    /\ Len(requests) = 1
    /\ requests[1] = [limitSize |-> pageSize, offset |-> 0,
                      status |-> "pending", count |-> 0]
    /\ lastEvent = Event("delay", "issued")

\* C23: in the account scroll loader, once a fetch has returned fewer than
\* pageSize records no later step starts a load or issues a fetch.
C23_NoFetchPastLastPage ==
    [][(variant = "AccountScroll" /\ ShortPageSeen)
          => /\ Len(requests') = Len(requests)
             /\ Len(tasks') <= Len(tasks)]_vars

\* C24: in the data-table scroll loader a loadmore event that arrives while
\* isLoading is true or after hasMoreRecords has become false issues no
\* fetch and changes no loader state, offset included.
C24_RejectedLoadMoreIsNoOp ==
    [][(variant = "DataScroll" /\ (isLoading \/ ~hasMoreRecords) /\ loadMoreData)
          => UNCHANGED <<offset, records, hasMoreRecords, isLoading,
                         tasks, requests>>]_vars

\* C25: in the data-table scroll loader, the request that follows a failed
\* request started by a loadmore event asks for the same offset again.
C25_FailedPageIsRequestedAgain ==
    variant = "DataScroll"
        => \A k \in 2..(Len(requests) - 1) :
              requests[k].status = "failed"
                 => requests[k + 1].offset = requests[k].offset

\* C26: in the account scroll loader offset changes only in a step in which
\* a fetch resolves with at least one record, and then by exactly pageSize.
C26_OffsetMovesOnNonEmptyPageOnly ==
    [][(variant = "AccountScroll" /\ offset' # offset)
          => /\ \E k \in 1..Len(requests), n \in 1..MaxTotal : Resolved(k, n)
             /\ offset' = offset + pageSize]_vars

\* the Apex calls that returned no record
EmptyPages ==
    {k \in 1..Len(requests) :
        requests[k].status = "ok" /\ requests[k].count = 0}

\* C27: in the loaders that set hasMoreRecords from the page length, when
\* the service holds a positive exact multiple of pageSize records,
\* hasMoreRecords is true until a fetch has returned zero records, so also
\* after the last non-empty page; the terminal state is reached by exactly
\* one further fetch, at offset total, that returns nothing.
C27_ExactMultipleNeedsEmptyPage ==
    (variant \in FlagVariants /\ total > 0 /\ total % pageSize = 0)
        => /\ hasMoreRecords <=> EmptyPages = {}
           /\ EmptyPages # {}
                 => /\ Cardinality(EmptyPages) = 1
                    /\ \A k \in EmptyPages :
                          k = Len(requests) /\ requests[k].offset = total
                    /\ Len(records) = total
                    /\ allLoaded

\* C27 witness: two full pages were merged and a third fetch, started by a
\* further trigger, has just returned nothing.
C27_Witness ==
    /\ variant \in FlagVariants
    /\ total = 2 * pageSize
    /\ Len(requests) = 3
    /\ requests[2].count = pageSize
    /\ requests[3].status = "ok" /\ requests[3].count = 0
    /\ Len(records) = total
    /\ ~hasMoreRecords
    /\ lastEvent = Event("fetch", "resolved")

\* the list a loader shows after merging pages up to offset, when pages
\* come in the order of getContactsData
PagedList == SubSeq(AllNumbered, 1, Min(offset, total))

\* C28: with no failures, the visible list of the client-cache loader after
\* the mount load and each load-more is the list the HTML-table scroll
\* loader has accumulated after the same number of pages: the first
\* min(offset, total) records of the service, numbered from 1.
C28_CacheShowsServerPages ==
    (variant \in {"HtmlScroll", "ClientCache"} /\ Failures = 0)
        => records = PagedList

\* C29: in the button loaders, after any window scroll event from the mount
\* onwards the back-to-top button is displayed exactly when
\* window.scrollY > 20.
C29_WindowScrollSetsBackToTop ==
    [][\A scrollY \in ScrollTops :
          windowScrollAt(scrollY)
             => (display' = "block" <=> scrollY > 20)]_vars

\* C30: in the HTML-table loaders the accumulated list is as long as offset
\* whenever the loader is idle with hasMoreRecords true, and in every state
\* it is no longer than offset, which is a multiple of pageSize.
C30_ListLengthTracksOffset ==
    variant \in HtmlVariants
        => /\ (~isLoading /\ hasMoreRecords) => Len(records) = offset
           /\ Len(records) <= offset
           /\ offset % pageSize = 0

\* C30 witness: idle after two full pages, with more to come, the list is
\* exactly as long as offset.
C30_Witness ==
    /\ variant \in HtmlVariants
    /\ Len(tasks) = 0
    /\ ~isLoading
    /\ hasMoreRecords
    /\ Len(requests) = 2
    /\ Len(records) = 2 * pageSize
    /\ offset = 2 * pageSize

\* the loaders that define allLoaded from hasMoreRecords
AllLoadedVariants == FlagVariants \cup {"DataScroll"}

\* C31: in the loaders with hasMoreRecords, allLoaded is true exactly when
\* hasMoreRecords is false and the list is non-empty, it is never true for
\* a service with zero records, and while it is true every trigger (mount,
\* button, scroll, loadmore) issues no fetch and changes no loader state.
C31_AllLoadedStopsEveryTrigger ==
    /\ [](variant \in AllLoadedVariants
            => /\ allLoaded <=> (~hasMoreRecords /\ Len(records) > 0)
               /\ total = 0 => ~allLoaded)
    /\ [][(variant \in AllLoadedVariants /\ allLoaded
              /\ (TriggerStep \/ loadMoreData))
             => UNCHANGED <<records, offset, hasMoreRecords, isLoading,
                            tasks, requests>>]_vars

\* C32: in the client-cache loader the visible list is the prefix of the
\* cache of length min(offset, allContacts.length), every visible record's
\* serialNumber is its position, and a near-bottom scroll that reaches
\* loadMoreData with offset >= allContacts.length changes nothing.
C32_VisibleIsPrefixOfCache ==
    /\ [](variant = "ClientCache"
            => /\ records = SubSeq(allContacts, 1, Min(offset, Len(allContacts)))
               /\ \A i \in 1..Len(records) : records[i].serialNumber = i)
    /\ [][\A scrollTop \in ScrollTops, gap \in Gaps :
             (/\ variant = "ClientCache"
              /\ offset >= Len(allContacts)
              /\ handleScrollAt(scrollTop, gap))
                => UNCHANGED <<records, offset, allContacts, isLoading,
                               tasks, requests>>]_vars

\* C32 witness: the cache holds more than two pages, two are visible after
\* a load-more, numbered by position.
C32_Witness ==
    /\ variant = "ClientCache"
    /\ lastEvent = Event("delay", "sliced")
    /\ offset = 2 * pageSize
    /\ Len(allContacts) > offset
    /\ Len(records) = offset
    /\ records[offset].serialNumber = offset

\* C33: in the client-cache loader a scroll event that arrives while
\* isLoading is true (initial load or load-more delay pending) starts
\* nothing, at most one load is ever pending, no record is visible twice,
\* and offset changes only when a pending load completes, by pageSize.
C33_OneLoadMoreAtATime ==
    [][variant = "ClientCache"
          => /\ \A scrollTop \in ScrollTops, gap \in Gaps :
                   (isLoading /\ handleScrollAt(scrollTop, gap))
                      => UNCHANGED <<records, offset, allContacts, isLoading,
                                     tasks, requests>>
             /\ Len(tasks') <= 1
             /\ offset' # offset
                   => /\ offset' = offset + pageSize
                      /\ Len(tasks) = 1
                      /\ Len(tasks') = 0
             /\ \A i \in 1..Len(records') :
                   \A j \in 1..Len(records') :
                      i # j => records'[i].id # records'[j].id]_vars

\* C33 witness: a near-bottom scroll was turned away while a load-more
\* delay was pending.
C33_Witness ==
    /\ variant = "ClientCache"
    /\ isLoading
    /\ Len(tasks) = 1
    /\ tasks[1].routine = "cacheLoadMoreData"
    /\ lastEvent = Event("scroll", "rejected")

\* C34: in the account scroll loader a rejected fetch leaves accounts and
\* offset as they were and isLoading false (after a failed initial load:
\* empty list, offset 0), and the request that follows a failed one asks
\* for the same offset.
C34_AccountFailureIsRetried ==
    /\ [](variant = "AccountScroll"
            => \A k \in 1..(Len(requests) - 1) :
                  requests[k].status = "failed"
                     => requests[k + 1].offset = requests[k].offset)
    /\ [][(variant = "AccountScroll" /\ \E k \in 1..Len(requests) : Rejected(k))
             => /\ UNCHANGED <<records, offset>>
                /\ isLoading' = FALSE
                /\ Rejected(1)
                      => records' = <<>> /\ offset' = 0]_vars

\* C34 witness: the load-more at offset pageSize failed and the next
\* near-bottom scroll has requested offset pageSize again.
C34_Witness ==
    /\ variant = "AccountScroll"
    /\ Len(requests) = 3
    /\ requests[1].status = "ok"
    /\ requests[2].status = "failed"
    /\ requests[2].offset = pageSize
    /\ requests[3].offset = pageSize
    /\ requests[3].status = "pending"

\* C35: in the button loaders every load-more press adds exactly one window
\* scroll listener, accepted or not, nothing else changes the number of
\* listeners (none is removed), and a window scroll event with listeners
\* registered leaves the display at the value for its scrollY.
C35_OneListenerPerPress ==
    [][(variant \in ButtonVariants)
          => /\ handleLoadMore => listeners' = listeners + 1
             /\ lastEvent'.handler = "button" => listeners' = listeners + 1
             /\ listeners' # listeners => lastEvent'.handler = "button"
             /\ \A scrollY \in ScrollTops :
                   (listeners > 0 /\ windowScrollAt(scrollY))
                      => display' = BackToTopDisplay(scrollY)]_vars

\* C35 witness: two presses, the second turned away by the guard, have
\* left two listeners.
C35_Witness ==
    /\ variant \in ButtonVariants
    /\ lastEvent = Event("button", "rejected")
    /\ listeners = 2
    /\ Len(requests) + Len(tasks) = 1

\* the toasts shown for the handleUpdateAll call k
ToastsOf(k) == {i \in 1..Len(toasts) : toasts[i].invocation = k}

\* the forms whose promise of call k ended fulfilled, rejected, or is pending
Succeeded(k) ==
    {f \in 1..forms : updatePromises[k].results[f] = "fulfilled"}
Failed(k) ==
    {f \in 1..forms : updatePromises[k].results[f] = "rejected"}
Pending(k) ==
    {f \in 1..forms : updatePromises[k].results[f] = "pending"}

\* C36: for every handleUpdateAll call whose forms have all reported and
\* whose callback has run: without an error the toast is 'Success' and the
\* component navigates to the list view; with an error the toast is the
\* 'Partial Success' warning, its count is the number of forms that
\* reported success, and the call does not navigate.  A call whose forms
\* have all reported always has its callback still to run or its toast.
C36_ToastMatchesOutcomes ==
    /\ \A k \in 1..Len(updatePromises) :
          /\ (Pending(k) = {}) => (updatePromises[k].reported \/ ENABLED thenCallback(k))
          /\ updatePromises[k].reported
                => \E i \in ToastsOf(k) :
                      IF Failed(k) = {}
                      THEN /\ toasts[i].title = "Success"
                           /\ toasts[i].variant = "success"
                      ELSE /\ toasts[i].title = "Partial Success"
                           /\ toasts[i].variant = "warning"
                           /\ toasts[i].updated = Cardinality(Succeeded(k))
                           /\ toasts[i].errors = Failed(k)
    /\ navigations =
          Cardinality({k \in 1..Len(updatePromises) :
                          updatePromises[k].reported /\ Failed(k) = {}})

\* C36 witness: of two forms one reported success and one an error; the
\* warning counts one and nothing navigated.
C36_Witness ==
    /\ forms = 2
    /\ Len(updatePromises) = 1
    /\ Cardinality(Succeeded(1)) = 1
    /\ Cardinality(Failed(1)) = 1
    /\ Len(toasts) = 1
    /\ toasts[1].title = "Partial Success"
    /\ toasts[1].updated = 1
    /\ navigations = 0

\* C37: a handleUpdateAll call shows at most one toast, and only once none
\* of its promises is pending, whatever the order of the events; a call
\* with a form that has not reported has no toast and has not navigated.
C37_OneToastAfterAllSettled ==
    /\ [](\A k \in 1..Len(updatePromises) :
             /\ Cardinality(ToastsOf(k)) <= 1
             /\ Pending(k) # {}
                   => /\ ToastsOf(k) = {}
                      /\ ~updatePromises[k].reported)
    /\ [](navigations <= Len(toasts) /\ Len(toasts) <= Len(updatePromises))
    /\ [][Len(toasts') # Len(toasts)
             => /\ Len(toasts') = Len(toasts) + 1
                /\ Pending(toasts'[Len(toasts')].invocation) = {}]_vars

\* C37 witness: one form reported success, the other's submission ended
\* without an event; no toast, no navigation, and nothing left to happen
\* for this call.
C37_Witness ==
    /\ forms = 2
    /\ Len(updatePromises) = 1
    /\ Cardinality(Succeeded(1)) = 1
    /\ Cardinality(Pending(1)) = 1
    /\ \A f \in 1..forms : submitted[f] = 0
    /\ toasts = <<>>
    /\ navigations = 0

====
